---- MODULE Spec2Model ----
(***************************************************************************)
(* Model of src/app.py: the Streamlit upload handler (lines 93-145) and    *)
(* convert_file_to_text (lines 24-72).                                     *)
(*                                                                         *)
(* Python strings are sequences of one-character strings, so that          *)
(* splitext, lower, concatenation, str() and startswith are computed       *)
(* character by character.  The parsing libraries (python-docx, openpyxl,  *)
(* python-pptx, PyPDF2, markdownify) are outside the repository: a call    *)
(* either raises one of LibraryErrors or returns an object drawn from a    *)
(* bounded set; the loops over that object are the code's.                 *)
(***************************************************************************)
EXTENDS Integers, Sequences, FiniteSets

\* ------------------------------------------------------------ bounds
MaxParagraphs == 2
MaxSheets == 2
MaxRows == 2
MaxSlides == 2
MaxPages == 2

\* ------------------------------------------------------------ strings
NL == "\n"
TAB == "\t"

\* A name that is not bound to a value yet (a local before its assignment).
Unbound == <<"<unbound>">>

\* Python's None where a string is expected.
None == <<"None">>

Upper == <<"A", "B", "C", "D", "E", "F", "G", "H", "I", "J", "K", "L", "M", "N", "O", "P", "Q", "R", "S", "T", "U", "V", "W", "X", "Y", "Z">>
Lowercase == <<"a", "b", "c", "d", "e", "f", "g", "h", "i", "j", "k", "l", "m", "n", "o", "p", "q", "r", "s", "t", "u", "v", "w", "x", "y", "z">>
Digits == <<"0", "1", "2", "3", "4", "5", "6", "7", "8", "9">>

\* str.lower() on one character (line 37).
LowerCharIdentity(c) == c
LowerChar(c) ==
    IF \E k \in 1..Len(Upper) : Upper[k] = c
    THEN Lowercase[CHOOSE k \in 1..Len(Upper) : Upper[k] = c]
    ELSE c

\* str.lower() (line 37).
Lower(s) == [k \in 1..Len(s) |-> LowerChar(s[k])]

\* str.rfind of one character, 1-based; 0 when absent (Python's -1).
RFind(s, c) ==
    IF \E k \in 1..Len(s) : s[k] = c
    THEN CHOOSE k \in 1..Len(s) : s[k] = c /\ \A m \in (k + 1)..Len(s) : s[m] # c
    ELSE 0

\* os.path.splitext(p)[1] (line 36): the text from the last dot of the last
\* path component, unless that component has only leading dots before it.
SplitextExt(p) ==
    LET sepIndex == RFind(p, "/")
        dotIndex == RFind(p, ".")
    IN  IF /\ dotIndex > sepIndex
           /\ \E k \in (sepIndex + 1)..(dotIndex - 1) : p[k] # "."
        THEN SubSeq(p, dotIndex, Len(p))
        ELSE <<>>

\* os.path.splitext(p)[0] (line 115).
SplitextRoot(p) == SubSeq(p, 1, Len(p) - Len(SplitextExt(p)))

\* os.path.join(a, b) on POSIX (line 98).
PathJoin(a, b) ==
    IF Len(b) > 0 /\ b[1] = "/" THEN b
    ELSE IF Len(a) = 0 \/ a[Len(a)] = "/" THEN a \o b
    ELSE a \o <<"/">> \o b

\* str.startswith (line 105).
StartsWith(s, prefix) ==
    /\ Len(prefix) <= Len(s)
    /\ SubSeq(s, 1, Len(prefix)) = prefix

\* s[:n] (line 113).
Take(s, n) == SubSeq(s, 1, IF Len(s) < n THEN Len(s) ELSE n)

\* str(n) of a non-negative int (line 50).
RECURSIVE StrInt(_)
StrInt(n) == IF n < 10 THEN <<Digits[n + 1]>> ELSE StrInt(n \div 10) \o <<Digits[(n % 10) + 1]>>

\* All sequences over S of length lo..hi.
SeqsBetween(S, lo, hi) == UNION {[1..n -> S] : n \in lo..hi}

\* ------------------------------------------------------------ messages
ErrorPrefix == <<"E", "r", "r", "o", "r">>
UnsupportedHead == <<"E", "r", "r", "o", "r", ":", " ", "U", "n", "s", "u", "p", "p", "o", "r", "t", "e", "d", " ", "f", "i", "l", "e", " ", "t", "y", "p", "e", " ", "'">>
UnsupportedTail == <<"'", ".", " ", "P", "l", "e", "a", "s", "e", " ", "u", "p", "l", "o", "a", "d", " ", "a", " ", "s", "u", "p", "p", "o", "r", "t", "e", "d", " ", "f", "i", "l", "e", ".">>
ProcessingHead == <<"E", "r", "r", "o", "r", " ", "p", "r", "o", "c", "e", "s", "s", "i", "n", "g", " ", "f", "i", "l", "e", ":", " ">>
ProcessingTail == <<".", " ", "P", "l", "e", "a", "s", "e", " ", "e", "n", "s", "u", "r", "e", " ", "t", "h", "e", " ", "f", "i", "l", "e", " ", "i", "s", " ", "n", "o", "t", " ", "c", "o", "r", "r", "u", "p", "t", "e", "d", ".">>
SheetHead == <<"-", "-", "-", " ", "S", "h", "e", "e", "t", ":", " ">>
SheetTail == <<" ", "-", "-", "-", "\n">>

\* The f-string of line 67.
UnsupportedMessage(ext) == UnsupportedHead \o ext \o UnsupportedTail

\* The f-string of line 72, cause being str(e).
ProcessingMessage(cause) == ProcessingHead \o cause \o ProcessingTail

\* ------------------------------------------------------------ exceptions
NoException == [cls |-> "none", msg |-> <<>>]
BadZipFile == [cls |-> "BadZipFile", msg |-> <<"F", "i", "l", "e", " ", "i", "s", " ", "n", "o", "t", " ", "a", " ", "z", "i", "p", " ", "f", "i", "l", "e">>]
KeyErrorExc == [cls |-> "KeyError", msg |-> <<"'", "x", "'">>]
UnicodeDecodeErrorExc == [cls |-> "UnicodeDecodeError", msg |-> <<"'", "u", "t", "f", "-", "8", "'", " ", "c", "o", "d", "e", "c", " ", "c", "a", "n", "'", "t", " ", "d", "e", "c", "o", "d", "e">>]
\* None + '\n' (line 65).
NoneTypeError == [cls |-> "TypeError", msg |-> <<"u", "n", "s", "u", "p", "p", "o", "r", "t", "e", "d", " ", "o", "p", "e", "r", "a", "n", "d", " ", "t", "y", "p", "e", "(", "s", ")", " ", "f", "o", "r", " ", "+", ":", " ", "'", "N", "o", "n", "e", "T", "y", "p", "e", "'", " ", "a", "n", "d", " ", "'", "s", "t", "r", "'">>]
\* open()/write() of the temporary file failing (lines 99-100).
OSErrorExc == [cls |-> "OSError", msg |-> <<"E", "N", "O", "S", "P", "C">>]

\* What a parsing library raises on a file it cannot read.
LibraryErrors == {BadZipFile, KeyErrorExc}

\* The classes derived from Exception among those raised here.
ExceptionClasses ==
    {"BadZipFile", "KeyError", "UnicodeDecodeError", "TypeError", "AttributeError", "OSError"}

\* `except Exception` (line 71): does the clause catch an exception of class cls.
CatchesOnlyOSError(cls) == cls = "OSError"
Catches(cls) == cls \in ExceptionClasses

\* The value the except clause returns (line 72); text is text_content at the raise.
ExceptResultWithPartial(text, e) == text \o ProcessingMessage(e.msg)
ExceptResult(text, e) == ProcessingMessage(e.msg)

\* ------------------------------------------------------------ inputs
\* uploaded_file.name: the names a browser upload gives (no directory part).
FileNames == {
    <<"r", ".", "d", "o", "c", "x">>,
    <<"R", ".", "D", "o", "c", "X">>,
    <<"b", ".", "x", "l", "s", "x">>,
    <<"s", ".", "p", "p", "t", "x">>,
    <<"p", ".", "h", "t", "m", "l">>,
    <<"P", ".", "H", "T", "M">>,
    <<"d", ".", "p", "d", "f">>,
    <<"D", ".", "P", "D", "F">>,
    <<"f", ".", "x", "y", "z">>,
    <<"F", ".", "X", "Y", "Z">>,
    <<"n", "o", "e", "x", "t">>,
    <<".", "p", "d", "f">>,
    <<"n", ".", "t", "x", "t", ".">> }

\* 50 * 1024 * 1024 (line 94).
SizeWarnThreshold == 50 * 1024 * 1024

\* uploaded_file.size: both sides of the threshold, and an empty file.
FileSizes == {0, SizeWarnThreshold, SizeWarnThreshold + 1}

NoFile == [name |-> Unbound, size |-> 0]

\* The uploads: every name at the threshold size, and every size for one
\* name of each kind (the size plays no part in the conversion).
SizedNames == {
    <<"r", ".", "d", "o", "c", "x">>,
    <<"P", ".", "H", "T", "M">>,
    <<"D", ".", "P", "D", "F">>,
    <<"f", ".", "x", "y", "z">>,
    <<"n", "o", "e", "x", "t">> }
Uploads ==
    [name : FileNames, size : {SizeWarnThreshold}] \cup [name : SizedNames, size : FileSizes]

\* The directory tempfile.TemporaryDirectory() creates (line 97); its parent
\* has a dot in its name.
TempDirName == <<"/", "t", ".", "d", "/", "t", "m", "p", "1">>

\* paragraph.text values python-docx returns; a line break inside a
\* paragraph is a "\n" in its text.
ParagraphTexts == {<<>>, <<"H", "i">>, <<"E", "r", "r", "o", "r">>, <<"a", "\n", "b">>}
Documents == SeqsBetween(ParagraphTexts, 0, MaxParagraphs)

\* cell.value values openpyxl returns.
NoneCell == [type |-> "NoneType"]
IntCell(n) == [type |-> "int", n |-> n]
StrCell(s) == [type |-> "str", s |-> s]
SheetRows == {
    <<StrCell(<<"A">>), StrCell(<<"B">>)>>,
    <<IntCell(1), NoneCell>>,
    <<NoneCell, StrCell(<<"E", "r", "r", "o", "r">>), IntCell(120)>> }
SheetNames == {<<"S", "h", "e", "e", "t", "1">>, <<"Q", "2">>}
SheetNameLists ==
    {ns \in SeqsBetween(SheetNames, 1, MaxSheets) :
        \A a, b \in 1..Len(ns) : a # b => ns[a] # ns[b]}
Workbooks ==
    UNION {[sheetnames : {ns},
            sheets : [{ns[k] : k \in 1..Len(ns)} -> SeqsBetween(SheetRows, 0, MaxRows)]]
           : ns \in SheetNameLists}

\* Shapes python-pptx returns: a picture has no text attribute; the text of
\* a text frame with two paragraphs has a "\n" in it.
Picture == [shape_type |-> "picture"]
TextBox == [shape_type |-> "text_box", text |-> <<"H", "i">>]
Placeholder == [shape_type |-> "placeholder", text |-> <<"a", "\n", "b">>]
\* slide.shapes of one slide.
SlideShapes == {
    <<>>,
    <<Picture>>,
    <<TextBox, Placeholder>>,
    <<Placeholder, Picture, TextBox>> }
Presentations == SeqsBetween(SlideShapes, 0, MaxSlides)

\* page.extract_text() values PyPDF2 returns.
PageTexts == {<<>>, <<"H", "i">>, None}
Readers == SeqsBetween(PageTexts, 0, MaxPages)

\* The UTF-8 text f.read() returns (line 60).
HtmlTexts == {
    <<>>,
    <<"E", "r", "r", "o", "r">>,
    <<"<", "b", ">", "E", "r", "r", "o", "r", "<", "/", "b", ">">>,
    <<"<", "i", ">", "H", "i", "<", "/", "i", ">">> }

\* markdownify(html) on HtmlTexts (line 61): text is kept, <b> becomes **,
\* <i> becomes *.
Markdownify(html) ==
    IF html = <<"<", "b", ">", "E", "r", "r", "o", "r", "<", "/", "b", ">">>
    THEN <<"*", "*", "E", "r", "r", "o", "r", "*", "*">>
    ELSE IF html = <<"<", "i", ">", "H", "i", "<", "/", "i", ">">>
    THEN <<"*", "H", "i", "*">>
    ELSE html

\* ------------------------------------------------------------ file system
\* The file system is a function from the paths that exist to what is there.
EmptyFs == [q \in {} |-> "dir"]
FsAdd(fsys, p, v) == [q \in (DOMAIN fsys) \cup {p} |-> IF q = p THEN v ELSE fsys[q]]
IsUnder(p, dir) == p = dir \/ StartsWith(p, dir \o <<"/">>)
FsRemoveTree(fsys, dir) == [q \in {x \in DOMAIN fsys : ~IsUnder(x, dir)} |-> fsys[q]]

\* TemporaryDirectory.__exit__ (the end of the with block of line 97): the
\* directory and all it holds are removed, whether or not an exception e is
\* leaving the block.
ExitSkipsCleanupOnError(fsys, dir, e) == IF e.cls = "none" THEN FsRemoveTree(fsys, dir) ELSE fsys
TemporaryDirectoryExit(fsys, dir, e) == FsRemoveTree(fsys, dir)

\* ------------------------------------------------------------ state
VARIABLES
    pc,             \* where the script is
    uploaded_file,  \* st.file_uploader's value (line 88)
    warned,         \* st.warning was called (line 95)
    fs,             \* the file system
    temp_dir,       \* line 97
    temp_filepath,  \* line 98
    extension,      \* line 37
    text_content,   \* line 38
    strategy,       \* the branch of lines 40-67 that was taken
    document,       \* line 41
    workbook,       \* line 45
    presentation,   \* line 53
    html_content,   \* line 60
    reader,         \* line 63
    i,              \* position of the outer for loop
    j,              \* position of the inner for loop
    calls,          \* the library calls made on the path
    exc,            \* the exception raised inside the try block
    outcome,        \* how convert_file_to_text ended
    full_text,      \* line 103
    propagated,     \* an exception leaving the with block
    view            \* what the page shows

vars == <<pc, uploaded_file, warned, fs, temp_dir, temp_filepath, extension,
          text_content, strategy, document, workbook, presentation,
          html_content, reader, i, j, calls, exc, outcome, full_text,
          propagated, view>>

locals == <<extension, text_content, strategy, document, workbook,
            presentation, html_content, reader, i, j, calls, exc, outcome>>

NoView == [kind |-> "none"]

Init ==
    /\ pc = "idle"
    /\ uploaded_file = NoFile
    /\ warned = FALSE
    /\ fs = EmptyFs
    /\ temp_dir = Unbound
    /\ temp_filepath = Unbound
    /\ extension = Unbound
    /\ text_content = Unbound
    /\ strategy = "none"
    /\ document = Unbound
    /\ workbook = Unbound
    /\ presentation = Unbound
    /\ html_content = Unbound
    /\ reader = Unbound
    /\ i = 0
    /\ j = 0
    /\ calls = {}
    /\ exc = NoException
    /\ outcome = "none"
    /\ full_text = Unbound
    /\ propagated = NoException
    /\ view = NoView

\* ------------------------------------------------------------ the upload handler
\* Line 88, 93: the script runs with a file in the uploader.
Upload ==
    /\ pc = "idle"
    /\ \E u \in Uploads : uploaded_file' = u
    /\ pc' = "size_check"
    /\ UNCHANGED <<warned, fs, temp_dir, temp_filepath, full_text, propagated, view>>
    /\ UNCHANGED locals

\* The condition of line 94.
WarnsAtThreshold(size) == size >= SizeWarnThreshold
ShouldWarn(size) == size > SizeWarnThreshold

\* Lines 94-95.
SizeCheck ==
    /\ pc = "size_check"
    /\ warned' = ShouldWarn(uploaded_file.size)
    /\ pc' = "enter_tempdir"
    /\ UNCHANGED <<uploaded_file, fs, temp_dir, temp_filepath, full_text, propagated, view>>
    /\ UNCHANGED locals

\* Lines 97-98: TemporaryDirectory.__enter__ and os.path.join.
EnterTempDir ==
    /\ pc = "enter_tempdir"
    /\ temp_dir' = TempDirName
    /\ fs' = FsAdd(fs, TempDirName, "dir")
    /\ temp_filepath' = PathJoin(TempDirName, uploaded_file.name)
    /\ pc' = "write"
    /\ UNCHANGED <<uploaded_file, warned, full_text, propagated, view>>
    /\ UNCHANGED locals

\* Lines 99-100: open(temp_filepath, "wb") and f.write.  open may fail (no
\* file is made), write may fail (a partial file is left), or all bytes are
\* written.
WriteFile ==
    /\ pc = "write"
    /\ \/ /\ fs' = FsAdd(fs, temp_filepath, "complete")
          /\ pc' = "convert"
          /\ UNCHANGED propagated
       \/ /\ fs' = fs
          /\ propagated' = OSErrorExc
          /\ pc' = "exit_scope"
       \/ /\ fs' = FsAdd(fs, temp_filepath, "partial")
          /\ propagated' = OSErrorExc
          /\ pc' = "exit_scope"
    /\ UNCHANGED <<uploaded_file, warned, temp_dir, temp_filepath, full_text, view>>
    /\ UNCHANGED locals

\* ------------------------------------------------------------ convert_file_to_text
outer == <<uploaded_file, warned, fs, temp_dir, temp_filepath, view>>
objects == <<document, workbook, presentation, html_content, reader>>

\* The if/elif chain of lines 40-67 on the lowercased extension.
StrategyDefaultsToHtml(ext) ==
    IF ext = <<".", "d", "o", "c", "x">> THEN "docx"
    ELSE IF ext = <<".", "x", "l", "s", "x">> THEN "xlsx"
    ELSE IF ext = <<".", "p", "p", "t", "x">> THEN "pptx"
    ELSE IF ext = <<".", "p", "d", "f">> THEN "pdf"
    ELSE "html"
Strategy(ext) ==
    IF ext = <<".", "d", "o", "c", "x">> THEN "docx"
    ELSE IF ext = <<".", "x", "l", "s", "x">> THEN "xlsx"
    ELSE IF ext = <<".", "p", "p", "t", "x">> THEN "pptx"
    ELSE IF ext \in {<<".", "h", "t", "m", "l">>, <<".", "h", "t", "m">>} THEN "html"
    ELSE IF ext = <<".", "p", "d", "f">> THEN "pdf"
    ELSE "unsupported"

\* The first statement of each branch.
FirstStep(s) ==
    CASE s = "docx" -> "docx_open"
      [] s = "xlsx" -> "xlsx_open"
      [] s = "pptx" -> "pptx_open"
      [] s = "html" -> "html_read"
      [] s = "pdf" -> "pdf_open"

\* A statement of the try block ends normally and control goes to step.
Continue(step) ==
    /\ pc' = step
    /\ UNCHANGED <<exc, outcome, full_text, propagated>>

\* A return statement of convert_file_to_text (lines 67, 69).
ReturnValue(value, how) ==
    /\ full_text' = value
    /\ outcome' = how
    /\ pc' = "exit_scope"
    /\ UNCHANGED <<exc, propagated>>

\* A statement of the try block raises e: the except clause of lines 71-72
\* returns the error string when it catches e; otherwise e leaves the call.
Raise(e) ==
    /\ exc' = e
    /\ pc' = "exit_scope"
    /\ IF Catches(e.cls)
       THEN /\ full_text' = ExceptResult(text_content, e)
            /\ outcome' = "caught"
            /\ UNCHANGED propagated
       ELSE /\ propagated' = e
            /\ outcome' = "raised"
            /\ UNCHANGED full_text

\* Lines 36-37: the lowercased extension of the path.
FormatTag(filepath) == Lower(SplitextExt(filepath))

\* Lines 36-39 and the branch test of lines 40-67; line 67 for no match.
Dispatch ==
    /\ pc = "convert"
    /\ extension' = FormatTag(temp_filepath)
    /\ text_content' = <<>>
    /\ strategy' = Strategy(extension')
    /\ IF strategy' = "unsupported"
       THEN ReturnValue(UnsupportedMessage(extension'), "unsupported")
       ELSE Continue(FirstStep(strategy'))
    /\ UNCHANGED <<objects, i, j, calls>>
    /\ UNCHANGED outer

\* Line 43: what one paragraph adds.
ParagraphEntryUnterminated(text) == text
ParagraphEntry(text) == text \o <<NL>>

\* Line 41.
DocxOpen ==
    /\ pc = "docx_open"
    /\ calls' = calls \cup {"Document"}
    /\ \/ \E d \in Documents :
            /\ document' = d
            /\ i' = 1
            /\ Continue("docx_loop")
       \/ \E e \in LibraryErrors :
            /\ Raise(e)
            /\ UNCHANGED <<document, i>>
    /\ UNCHANGED <<extension, text_content, strategy, workbook, presentation, html_content, reader, j>>
    /\ UNCHANGED outer

\* Lines 42-43: one turn of the loop, or its end.
DocxLoop ==
    /\ pc = "docx_loop"
    /\ \/ /\ i <= Len(document)
          /\ text_content' = text_content \o ParagraphEntry(document[i])
          /\ i' = i + 1
          /\ Continue("docx_loop")
       \/ /\ i <= Len(document)
          /\ Raise(KeyErrorExc)
          /\ UNCHANGED <<text_content, i>>
       \/ /\ i > Len(document)
          /\ Continue("return")
          /\ UNCHANGED <<text_content, i>>
    /\ UNCHANGED <<extension, strategy, objects, j, calls>>
    /\ UNCHANGED outer

\* str(cell.value) (line 50).
PyStr(cell) ==
    CASE cell.type = "int" -> StrInt(cell.n)
      [] cell.type = "str" -> cell.s
      [] cell.type = "NoneType" -> <<"N", "o", "n", "e">>

\* One element of row_text (line 50).
CellTextStrOfNone(cell) == PyStr(cell)
CellText(cell) == IF cell.type # "NoneType" THEN PyStr(cell) ELSE <<>>

\* sep.join(parts).
RECURSIVE Join(_, _)
Join(sep, parts) ==
    IF Len(parts) = 0 THEN <<>>
    ELSE IF Len(parts) = 1 THEN parts[1]
    ELSE parts[1] \o sep \o Join(sep, Tail(parts))

\* Lines 50-51: what one row adds.
RowLine(row) == Join(<<TAB>>, [k \in 1..Len(row) |-> CellText(row[k])]) \o <<NL>>

\* Line 48: the f-string.
SheetHeader(sheet_name) == SheetHead \o sheet_name \o SheetTail

\* Line 45.
XlsxOpen ==
    /\ pc = "xlsx_open"
    /\ calls' = calls \cup {"load_workbook"}
    /\ \/ \E w \in Workbooks :
            /\ workbook' = w
            /\ i' = 1
            /\ Continue("xlsx_sheet")
       \/ \E e \in LibraryErrors :
            /\ Raise(e)
            /\ UNCHANGED <<workbook, i>>
    /\ UNCHANGED <<extension, text_content, strategy, document, presentation, html_content, reader, j>>
    /\ UNCHANGED outer

\* Lines 46-48: one turn of the loop over the sheet names, or its end.
XlsxSheet ==
    /\ pc = "xlsx_sheet"
    /\ \/ /\ i <= Len(workbook.sheetnames)
          /\ text_content' = text_content \o SheetHeader(workbook.sheetnames[i])
          /\ j' = 1
          /\ Continue("xlsx_row")
       \/ /\ i > Len(workbook.sheetnames)
          /\ Continue("return")
          /\ UNCHANGED <<text_content, j>>
    /\ UNCHANGED <<extension, strategy, objects, i, calls>>
    /\ UNCHANGED outer

\* Lines 49-51: one turn of the loop over the rows of sheet i, or its end.
XlsxRow ==
    /\ pc = "xlsx_row"
    /\ LET rows == workbook.sheets[workbook.sheetnames[i]]
       IN  \/ /\ j <= Len(rows)
              /\ text_content' = text_content \o RowLine(rows[j])
              /\ j' = j + 1
              /\ Continue("xlsx_row")
              /\ UNCHANGED i
           \/ /\ j <= Len(rows)
              /\ Raise(KeyErrorExc)
              /\ UNCHANGED <<text_content, i, j>>
           \/ /\ j > Len(rows)
              /\ i' = i + 1
              /\ Continue("xlsx_sheet")
              /\ UNCHANGED <<text_content, j>>
    /\ UNCHANGED <<extension, strategy, objects, calls>>
    /\ UNCHANGED outer

\* Whether the object has an attribute named text.
HasText(shape) == "text" \in DOMAIN shape

\* The guard of line 56: hasattr(shape, "text").
GuardAlwaysTrue(shape) == TRUE
TextGuard(shape) == HasText(shape)

\* Reading an attribute the object does not have.
AttributeErrorExc == [cls |-> "AttributeError", msg |-> <<"t", "e", "x", "t">>]

\* Line 53.
PptxOpen ==
    /\ pc = "pptx_open"
    /\ calls' = calls \cup {"Presentation"}
    /\ \/ \E q \in Presentations :
            /\ presentation' = q
            /\ i' = 1
            /\ j' = 1
            /\ Continue("pptx_loop")
       \/ \E e \in LibraryErrors :
            /\ Raise(e)
            /\ UNCHANGED <<presentation, i, j>>
    /\ UNCHANGED <<extension, text_content, strategy, document, workbook, html_content, reader>>
    /\ UNCHANGED outer

\* Lines 54-57: one turn of the inner loop (shape.text is read only under
\* the guard), the step to the next slide, or the end of the outer loop.
PptxLoop ==
    /\ pc = "pptx_loop"
    /\ \/ /\ i <= Len(presentation)
          /\ j <= Len(presentation[i])
          /\ LET shape == presentation[i][j]
             IN  IF TextGuard(shape)
                 THEN IF HasText(shape)
                      THEN /\ text_content' = text_content \o shape.text \o <<NL>>
                           /\ j' = j + 1
                           /\ Continue("pptx_loop")
                      ELSE /\ Raise(AttributeErrorExc)
                           /\ UNCHANGED <<text_content, j>>
                 ELSE /\ j' = j + 1
                      /\ Continue("pptx_loop")
                      /\ UNCHANGED text_content
          /\ UNCHANGED i
       \/ /\ i <= Len(presentation)
          /\ j <= Len(presentation[i])
          /\ Raise(KeyErrorExc)
          /\ UNCHANGED <<text_content, i, j>>
       \/ /\ i <= Len(presentation)
          /\ j > Len(presentation[i])
          /\ i' = i + 1
          /\ j' = 1
          /\ Continue("pptx_loop")
          /\ UNCHANGED text_content
       \/ /\ i > Len(presentation)
          /\ Continue("return")
          /\ UNCHANGED <<text_content, i, j>>
    /\ UNCHANGED <<extension, strategy, objects, calls>>
    /\ UNCHANGED outer

\* Lines 59-60: open(filepath, 'r', encoding='utf-8') and f.read().
HtmlRead ==
    /\ pc = "html_read"
    /\ calls' = calls \cup {"open"}
    /\ \/ \E h \in HtmlTexts :
            /\ html_content' = h
            /\ Continue("html_convert")
       \/ /\ Raise(UnicodeDecodeErrorExc)
          /\ UNCHANGED html_content
    /\ UNCHANGED <<extension, text_content, strategy, document, workbook, presentation, reader, i, j>>
    /\ UNCHANGED outer

\* Line 61.
HtmlConvert ==
    /\ pc = "html_convert"
    /\ calls' = calls \cup {"markdownify"}
    /\ text_content' = Markdownify(html_content)
    /\ Continue("return")
    /\ UNCHANGED <<extension, strategy, objects, i, j>>
    /\ UNCHANGED outer

\* Line 63.
PdfOpen ==
    /\ pc = "pdf_open"
    /\ calls' = calls \cup {"PdfReader"}
    /\ \/ \E r \in Readers :
            /\ reader' = r
            /\ i' = 1
            /\ Continue("pdf_loop")
       \/ \E e \in LibraryErrors :
            /\ Raise(e)
            /\ UNCHANGED <<reader, i>>
    /\ UNCHANGED <<extension, text_content, strategy, document, workbook, presentation, html_content, j>>
    /\ UNCHANGED outer

\* Lines 64-65: one turn of the loop, or its end.  extract_text() giving
\* None makes None + '\n' raise TypeError.
PdfLoop ==
    /\ pc = "pdf_loop"
    /\ \/ /\ i <= Len(reader)
          /\ reader[i] # None
          /\ text_content' = text_content \o reader[i] \o <<NL>>
          /\ i' = i + 1
          /\ Continue("pdf_loop")
       \/ /\ i <= Len(reader)
          /\ reader[i] = None
          /\ Raise(NoneTypeError)
          /\ UNCHANGED <<text_content, i>>
       \/ /\ i <= Len(reader)
          /\ Raise(KeyErrorExc)
          /\ UNCHANGED <<text_content, i>>
       \/ /\ i > Len(reader)
          /\ Continue("return")
          /\ UNCHANGED <<text_content, i>>
    /\ UNCHANGED <<extension, strategy, objects, j, calls>>
    /\ UNCHANGED outer

\* Line 69.
ReturnText ==
    /\ pc = "return"
    /\ ReturnValue(text_content, "completed")
    /\ UNCHANGED <<extension, text_content, strategy, objects, i, j, calls>>
    /\ UNCHANGED outer

\* ------------------------------------------------------------ after the call
\* The end of the with block of line 97, reached by line 103 returning or by
\* an exception on its way out.
ExitScope ==
    /\ pc = "exit_scope"
    /\ fs' = TemporaryDirectoryExit(fs, temp_dir, propagated)
    /\ IF propagated.cls # "none"
       THEN /\ pc' = "crashed"
            /\ view' = [kind |-> "exception", message |-> propagated.msg]
       ELSE /\ pc' = "render"
            /\ UNCHANGED view
    /\ UNCHANGED <<uploaded_file, warned, temp_dir, temp_filepath, full_text, propagated>>
    /\ UNCHANGED locals

\* full_text[:1000] (line 113).
PreviewLength == 1000

ConvertedPrefix == <<"c", "o", "n", "v", "e", "r", "t", "e", "d", "_">>
MdSuffix == <<".", "m", "d">>

\* The test of line 105.
IsErrorText(text) == StartsWith(text, ErrorPrefix)

\* Lines 105-145: the success view (preview, download, size comparison) or
\* the error view.  The texts here are ASCII, so the UTF-8 length of line
\* 130 is the number of characters; the display formatting of the two sizes
\* (format_size, the percentage) is left out.
Render ==
    /\ pc = "render"
    /\ IF ~IsErrorText(full_text)
       THEN view' = [kind |-> "success",
                     preview |-> Take(full_text, PreviewLength),
                     data |-> full_text,
                     file_name |-> ConvertedPrefix \o SplitextRoot(uploaded_file.name) \o MdSuffix,
                     original_size |-> uploaded_file.size,
                     converted_size |-> Len(full_text)]
       ELSE view' = [kind |-> "error", message |-> full_text]
    /\ pc' = "done"
    /\ UNCHANGED <<uploaded_file, warned, fs, temp_dir, temp_filepath, full_text, propagated>>
    /\ UNCHANGED locals

\* Streamlit runs the script again from the top: every name is fresh, the
\* file system is what the last run left.
Rerun ==
    /\ pc \in {"done", "crashed"}
    /\ pc' = "idle"
    /\ uploaded_file' = NoFile
    /\ warned' = FALSE
    /\ temp_dir' = Unbound
    /\ temp_filepath' = Unbound
    /\ extension' = Unbound
    /\ text_content' = Unbound
    /\ strategy' = "none"
    /\ document' = Unbound
    /\ workbook' = Unbound
    /\ presentation' = Unbound
    /\ html_content' = Unbound
    /\ reader' = Unbound
    /\ i' = 0
    /\ j' = 0
    /\ calls' = {}
    /\ exc' = NoException
    /\ outcome' = "none"
    /\ full_text' = Unbound
    /\ propagated' = NoException
    /\ view' = NoView
    /\ UNCHANGED fs

Next ==
    \/ Upload
    \/ SizeCheck
    \/ EnterTempDir
    \/ WriteFile
    \/ Dispatch
    \/ DocxOpen
    \/ DocxLoop
    \/ XlsxOpen
    \/ XlsxSheet
    \/ XlsxRow
    \/ PptxOpen
    \/ PptxLoop
    \/ HtmlRead
    \/ HtmlConvert
    \/ PdfOpen
    \/ PdfLoop
    \/ ReturnText
    \/ ExitScope
    \/ Render
    \/ Rerun

Spec == Init /\ [][Next]_vars

\* ------------------------------------------------------------ properties
\* The steps of convert_file_to_text (lines 35-72).
ConvertSteps ==
    {"convert", "docx_open", "docx_loop", "xlsx_open", "xlsx_sheet", "xlsx_row",
     "pptx_open", "pptx_loop", "html_read", "html_convert", "pdf_open", "pdf_loop",
     "return"}

\* The concatenation of a sequence of strings.
RECURSIVE Flatten(_)
Flatten(parts) == IF Len(parts) = 0 THEN <<>> ELSE Head(parts) \o Flatten(Tail(parts))

\* The lines of a text: the pieces between its newlines, the last of which
\* must be empty for the text to be newline-terminated.
RECURSIVE LinesOf(_)
LinesOf(text) ==
    IF \A k \in 1..Len(text) : text[k] # NL THEN <<>>
    ELSE LET n == CHOOSE k \in 1..Len(text) :
                     text[k] = NL /\ \A m \in 1..(k - 1) : text[m] # NL
         IN  <<SubSeq(text, 1, n - 1)>> \o LinesOf(SubSeq(text, n + 1, Len(text)))
NewlineTerminated(text) == Len(text) = 0 \/ text[Len(text)] = NL
HasNewline(text) == \E k \in 1..Len(text) : text[k] = NL

\* sub occurs in text.
Occurs(sub, text) ==
    \E k \in 1..(Len(text) - Len(sub) + 1) : SubSeq(text, k, k + Len(sub) - 1) = sub

SupportedExtensions == {
    <<".", "d", "o", "c", "x">>, <<".", "x", "l", "s", "x">>, <<".", "p", "p", "t", "x">>,
    <<".", "h", "t", "m", "l">>, <<".", "h", "t", "m">>, <<".", "p", "d", "f">> }

\* C1: for a path whose lowercased extension is not one of .docx, .xlsx,
\* .pptx, .html, .htm, .pdf (a path with no extension included), no parsing
\* library call is ever made on the path, and the call returns the
\* UnsupportedFormat failure naming that extension.
C1_UnsupportedNeverParses ==
    (temp_filepath # Unbound /\ Lower(SplitextExt(temp_filepath)) \notin SupportedExtensions)
        => /\ calls = {}
           /\ pc \notin ConvertSteps \ {"convert"}
           /\ outcome \in {"none", "unsupported"}
           /\ outcome = "unsupported" =>
                full_text = UnsupportedHead \o Lower(SplitextExt(temp_filepath)) \o UnsupportedTail

\* C1 witness: a name with no extension was refused and the error is shown.
C1_Witness ==
    /\ pc = "done"
    /\ uploaded_file.name = <<"n", "o", "e", "x", "t">>
    /\ outcome = "unsupported"
    /\ full_text = UnsupportedHead \o UnsupportedTail
    /\ calls = {}

\* C2: every error raised by a step of an extraction strategy ends as the
\* ExtractionError failure string built from its cause, and nothing
\* propagates to the caller.
C2_ErrorsBecomeFailureString ==
    exc.cls # "none"
        => /\ outcome = "caught"
           /\ full_text = ProcessingHead \o exc.msg \o ProcessingTail
           /\ propagated = NoException
           /\ pc # "crashed"

\* C2 witness: a library error on opening a .docx was turned into the string.
C2_Witness ==
    /\ pc = "done"
    /\ strategy = "docx"
    /\ exc = BadZipFile
    /\ full_text = ProcessingMessage(BadZipFile.msg)
    /\ propagated = NoException

\* C3: the temporary file is fully written before the conversion starts,
\* exists during all of it, and is gone once the with block has been left,
\* whether the conversion succeeded, failed, or the write itself failed.
C3_TempFileScoped ==
    /\ pc \in ConvertSteps =>
          /\ temp_filepath \in DOMAIN fs
          /\ fs[temp_filepath] = "complete"
    /\ pc \in {"render", "done", "crashed", "idle", "size_check", "enter_tempdir"} =>
          DOMAIN fs = {}

\* C3 witness: the write failed half way and the partial file was removed.
C3_Witness ==
    /\ pc = "crashed"
    /\ propagated = OSErrorExc
    /\ temp_filepath \notin DOMAIN fs
    /\ temp_dir \notin DOMAIN fs

\* C4: the success view is shown if and only if a strategy completed
\* normally, and the error view if and only if the call returned an
\* UnsupportedFormat or ExtractionError failure, whatever the extracted text.
C4_ViewMatchesOutcome ==
    pc = "done"
        => /\ view.kind = "success" <=> outcome = "completed"
           /\ view.kind = "error" <=> outcome \in {"unsupported", "caught"}

\* The lines the claim gives for a workbook: per sheet, in workbook order,
\* the header and then one line per row, a row being its cells' strings
\* (empty for None) joined by tabs.
ExpectedCell(cell) == IF cell = NoneCell THEN <<>> ELSE PyStr(cell)
ExpectedRow(row) == Join(<<"\t">>, [k \in 1..Len(row) |-> ExpectedCell(row[k])])
ExpectedSheet(w, name) ==
    <<SheetHead \o name \o <<" ", "-", "-", "-">>>>
        \o [k \in 1..Len(w.sheets[name]) |-> ExpectedRow(w.sheets[name][k])]
ExpectedWorkbookLines(w) ==
    Flatten([k \in 1..Len(w.sheetnames) |-> ExpectedSheet(w, w.sheetnames[k])])
TerminateAll(lines) == Flatten([k \in 1..Len(lines) |-> lines[k] \o <<"\n">>])

\* The workbook of the claim's example: Sheet1 with rows [["A","B"],[1,None]].
ExampleWorkbook ==
    [sheetnames |-> <<(<<"S", "h", "e", "e", "t", "1">>)>>,
     sheets |-> [n \in {<<"S", "h", "e", "e", "t", "1">>} |->
                    << <<StrCell(<<"A">>), StrCell(<<"B">>)>>, <<IntCell(1), NoneCell>> >>]]
ExampleWorkbookText ==
    <<"-", "-", "-", " ", "S", "h", "e", "e", "t", ":", " ", "S", "h", "e", "e", "t", "1",
      " ", "-", "-", "-", "\n", "A", "\t", "B", "\n", "1", "\t", "\n">>

C6_ExactlyNLines ==
    (strategy = "docx" /\ outcome = "completed")
        => /\ NewlineTerminated(full_text)
           /\ LinesOf(full_text) = document

\* C6 amended: the output is the paragraphs' texts in document order, each
\* followed by one newline; it has exactly N lines, the i-th being the i-th
\* paragraph's text, when no paragraph's text holds a newline itself.
C6_DocxOutput ==
    (strategy = "docx" /\ outcome = "completed")
        => /\ full_text = TerminateAll(document)
           /\ NewlineTerminated(full_text)
           /\ (\A k \in 1..Len(document) : ~HasNewline(document[k]))
                 => LinesOf(full_text) = document

\* C6 witness: a document of two paragraphs, neither with a line break.
C6_Witness ==
    /\ pc = "done"
    /\ strategy = "docx"
    /\ outcome = "completed"
    /\ document = << <<"H", "i">>, <<>> >>
    /\ full_text = <<"H", "i", "\n", "\n">>

\* The shapes of a presentation in slide order, then shape order.
AllShapes(q) == Flatten(q)

\* C7: the output for a presentation is one newline-terminated entry per
\* shape that has a text attribute, in slide order and then shape order;
\* a shape without one adds nothing and raises nothing.
C7_PptxOutput ==
    /\ (strategy = "pptx" /\ outcome = "completed")
          => LET texts == SelectSeq(AllShapes(presentation), LAMBDA sh : "text" \in DOMAIN sh)
             IN  full_text = Flatten([k \in 1..Len(texts) |-> texts[k].text \o <<"\n">>])
    /\ exc.cls # "AttributeError"

\* C7 witness: two slides, the second with a picture between two text shapes.
C7_Witness ==
    /\ pc = "done"
    /\ outcome = "completed"
    /\ presentation = << <<TextBox, Placeholder>>, <<Placeholder, Picture, TextBox>> >>
    /\ full_text = <<"H", "i", "\n", "a", "\n", "b", "\n", "a", "\n", "b", "\n", "H", "i", "\n">>

\* Two strings that differ at most in the case of their letters.
UpperChar(c) ==
    IF \E k \in 1..Len(Lowercase) : Lowercase[k] = c
    THEN Upper[CHOOSE k \in 1..Len(Lowercase) : Lowercase[k] = c]
    ELSE c
SameIgnoringCase(a, b) ==
    /\ Len(a) = Len(b)
    /\ \A k \in 1..Len(a) : UpperChar(a[k]) = UpperChar(b[k])

\* C8: the strategy taken for the uploaded name is the one taken for every
\* name whose extension differs from its extension only in letter case, and
\* an unsupported extension gives the same failure for both.
C8_CaseInsensitiveDispatch ==
    strategy # "none" =>
        \A n \in FileNames :
            SameIgnoringCase(SplitextExt(n), SplitextExt(uploaded_file.name))
                => /\ Strategy(FormatTag(PathJoin(TempDirName, n))) = strategy
                   /\ strategy = "unsupported" =>
                        full_text = UnsupportedMessage(FormatTag(PathJoin(TempDirName, n)))

\* C8 witness: an upper-case .PDF name was sent to the PDF strategy.
C8_Witness ==
    /\ uploaded_file.name = <<"D", ".", "P", "D", "F">>
    /\ strategy = "pdf"
    /\ "PdfReader" \in calls
    /\ pc = "done"

\* C9: once the size test has run, the warning has been issued exactly when
\* the size is above 50 MiB, so before the conversion starts; and the size
\* test always goes on to the conversion.
C9_WarningBeforeExtraction ==
    /\ [](pc \notin {"idle", "size_check"}
            => (warned <=> uploaded_file.size > 50 * 1024 * 1024))
    /\ [][pc = "size_check" => pc' = "enter_tempdir"]_vars

\* C9 witness: a file of 50 MiB + 1 byte was warned about and converted.
C9_Witness ==
    /\ pc = "done"
    /\ uploaded_file.size = 50 * 1024 * 1024 + 1
    /\ warned
    /\ outcome = "completed"
    /\ view.kind = "success"

\* Every item of the parsed object has been processed.
AllProcessed ==
    CASE strategy = "docx" -> i = Len(document) + 1
      [] strategy = "xlsx" -> i = Len(workbook.sheetnames) + 1
      [] strategy = "pptx" -> i = Len(presentation) + 1
      [] strategy = "pdf" -> i = Len(reader) + 1 /\ \A k \in 1..Len(reader) : reader[k] # None
      [] strategy = "html" -> html_content # Unbound

\* C10: a failure after text was accumulated returns the failure string
\* alone, with none of that text; a normal return happens only when every
\* page, paragraph, row and shape was processed.
C10_AllOrNothing ==
    /\ outcome = "caught"
          => /\ full_text = ProcessingHead \o exc.msg \o ProcessingTail
             /\ Len(text_content) > 0 => ~Occurs(text_content, full_text)
    /\ outcome = "completed" => AllProcessed /\ full_text = text_content

\* C10 witness: the second PDF page gave None after the first gave "Hi".
C10_Witness ==
    /\ pc = "done"
    /\ strategy = "pdf"
    /\ reader = << <<"H", "i">>, None >>
    /\ text_content = <<"H", "i", "\n">>
    /\ exc = NoneTypeError
    /\ full_text = ProcessingMessage(NoneTypeError.msg)
    /\ view.kind = "error"

====
